---- MODULE Spec2Model ----
(***************************************************************************)
(* OmniSpeed continuous network monitor.                                   *)
(*                                                                         *)
(*   probe engine  : src/services/speedTest.ts  (runSpeedTest)             *)
(*   scheduler     : src/App.tsx                (App component)            *)
(*   insights      : src/unnamed/part_000       (getNetworkInsights)       *)
(*                                                                         *)
(* JavaScript numbers are modelled as exact non-negative rationals         *)
(* extended with Infinity and NaN (the program never produces a negative   *)
(* number: every subtraction is of a smaller from a larger time stamp).    *)
(*                                                                         *)
(* React state: a setState call changes the state variable at once, but    *)
(* the handlers (performTest, the interval callback, the button) keep the  *)
(* values their render captured until the component renders again; the     *)
(* variable closure holds those captured values.                           *)
(***************************************************************************)
EXTENDS Integers, Sequences, FiniteSets, TLC

(***************************************************************************)
(* Numbers                                                                 *)
(***************************************************************************)
RECURSIVE GCD(_, _)
GCD(a, b) == IF b = 0 THEN a ELSE GCD(b, a % b)

Inf == [t |-> "inf", n |-> 0, d |-> 1]

NaN == [t |-> "nan", n |-> 0, d |-> 1]

\* the rational n/d (d > 0) in lowest terms
Fin(n, d) == LET g == GCD(n, d) IN [t |-> "fin", n |-> n \div g, d |-> d \div g]

Zero == Fin(0, 1)

IsFinite(x) == x.t = "fin"

IsZero(x) == x.t = "fin" /\ x.n = 0

\* x > 0 (false for NaN)
Positive(x) == x.t = "inf" \/ (x.t = "fin" /\ x.n > 0)

\* x >= 0 (false for NaN)
NonNegative(x) == x.t = "inf" \/ (x.t = "fin" /\ x.n >= 0)

\* x <= y on finite numbers
Leq(x, y) == x.n * y.d <= y.n * x.d

\* x + y
Add(x, y) ==
  IF x.t = "nan" \/ y.t = "nan" THEN NaN
  ELSE IF x.t = "inf" \/ y.t = "inf" THEN Inf
  ELSE Fin(x.n * y.d + y.n * x.d, x.d * y.d)

\* x - y for finite x >= y
Sub(x, y) == Fin(x.n * y.d - y.n * x.d, x.d * y.d)

\* x * y
Mul(x, y) ==
  IF x.t = "nan" \/ y.t = "nan" THEN NaN
  ELSE IF x.t = "inf" \/ y.t = "inf"
       THEN (IF IsZero(x) \/ IsZero(y) THEN NaN ELSE Inf)
  ELSE Fin(x.n * y.n, x.d * y.d)

\* x / y with the IEEE results for a zero or infinite divisor
Div(x, y) ==
  IF x.t = "nan" \/ y.t = "nan" THEN NaN
  ELSE IF x.t = "inf" THEN (IF y.t = "inf" THEN NaN ELSE Inf)
  ELSE IF y.t = "inf" THEN Zero
  ELSE IF y.n = 0 THEN (IF x.n = 0 THEN NaN ELSE Inf)
  ELSE Fin(x.n * y.d, x.d * y.n)

RECURSIVE Pow10(_)
Pow10(k) == IF k = 0 THEN 1 ELSE 10 * Pow10(k - 1)

\* Number(x.toFixed(digits)): nearest multiple of 10^-digits, ties upward;
\* "Infinity" and "NaN" print and parse back as themselves
ToFixed(x, digits) ==
  IF x.t # "fin" THEN x
  ELSE Fin((2 * x.n * Pow10(digits) + x.d) \div (2 * x.d), Pow10(digits))

\* arr.reduce((a, b) => a + b, 0)
RECURSIVE Sum(_)
Sum(arr) == IF arr = <<>> THEN Zero ELSE Add(Sum(SubSeq(arr, 1, Len(arr) - 1)), arr[Len(arr)])

\* Math.max(...arr), Math.min(...arr) of finite numbers
Max(arr) == CHOOSE x \in {arr[k] : k \in DOMAIN arr} : \A y \in {arr[k] : k \in DOMAIN arr} : Leq(y, x)

Min(arr) == CHOOSE x \in {arr[k] : k \in DOMAIN arr} : \A y \in {arr[k] : k \in DOMAIN arr} : Leq(x, y)

\* arr.filter(s => s > 0).length
CountPositive(arr) == Cardinality({k \in DOMAIN arr : Positive(arr[k])})

(***************************************************************************)
(* Probe engine: runSpeedTest                                              *)
(***************************************************************************)
LatencySamples == 5

DownloadSamples == 3

UploadSamples == 2

uploadSize == 1048576

\* What one fetch can do.  kind "ok": the promise resolves (for the upload
\* with a success status); "status": it resolves with a non-success status;
\* "error": it rejects.  elapsed is performance.now() - start in ms, size the
\* blob size in bytes, random the Math.random() draw used by a fallback.
Outcome(kind, elapsed, size, random) ==
  [kind |-> kind, elapsed |-> elapsed, size |-> size, random |-> random]

\* Math.random() draws: the least one and one close to 1
RandomValues == {Zero, Fin(999, 1000)}

\* measured durations in ms: a timer too coarse to see the transfer, and 1 s
Durations == {Zero, Fin(1000, 1)}

\* an empty body and a body of 100 Mbit
BlobSizes == {0, 100 * 131072}

LatencyOutcomes ==
  {Outcome("ok", Fin(123, 10), 0, Zero)} \cup {Outcome("error", Zero, 0, r) : r \in RandomValues}

DownloadOutcomes ==
  {Outcome("error", Zero, 0, Zero)} \cup {Outcome("ok", e, s, Zero) : e \in Durations, s \in BlobSizes}

UploadOutcomes ==
  {Outcome("error", Zero, 0, Zero), Outcome("status", Fin(1000, 1), 0, Zero)}
    \cup {Outcome("ok", e, 0, Zero) : e \in Durations}

\* the state of one invocation: the position in the function, its locals,
\* whether a fetch is outstanding, the outcomes seen so far (log) and what it
\* handed back to the caller (results)
NewProbe ==
  [pc |-> "latency", i |-> 0, pending |-> FALSE,
   latencies |-> <<>>, avgLatency |-> Zero, jitter |-> Zero,
   downloadSpeeds |-> <<>>, avgDownload |-> Zero,
   uploadSpeeds |-> <<>>, avgUpload |-> Zero,
   log |-> <<>>, results |-> <<>>]

\* LatencySample with a fallback that forgets the 20 ms base
LatencySampleUnshifted(out) ==
  IF out.kind = "ok" THEN out.elapsed
  ELSE Mul(out.random, Fin(10, 1))

\* the value one latency round-trip pushes
LatencySample(out) ==
  IF out.kind = "ok" THEN out.elapsed
  ELSE Add(Fin(20, 1), Mul(out.random, Fin(10, 1)))

AvgLatency(latencies) == Div(Sum(latencies), Fin(Len(latencies), 1))

\* Jitter taken as the largest sample instead of the spread
JitterAsMax(latencies) == Max(latencies)

Jitter(latencies) == Sub(Max(latencies), Min(latencies))

\* the value one download attempt pushes
DownloadMbps(out) ==
  IF out.kind = "ok"
  THEN LET durationInSeconds == Div(out.elapsed, Fin(1000, 1))
           sizeInBits == Fin(out.size * 8, 1)
       IN Div(Div(Div(sizeInBits, Fin(1024, 1)), Fin(1024, 1)), durationInSeconds)
  ELSE Zero

\* AvgDownload averaging over all attempts, failed ones included
AvgDownloadOverAll(downloadSpeeds) ==
  Div(Sum(downloadSpeeds), Fin(Len(downloadSpeeds), 1))

AvgDownload(downloadSpeeds) ==
  LET succeeded == CountPositive(downloadSpeeds)
  IN Div(Sum(downloadSpeeds), Fin(IF succeeded > 1 THEN succeeded ELSE 1, 1))

\* UploadMbps without the res.ok test: a non-success status counts as measured
UploadMbpsIgnoringStatus(out, avgDownload) ==
  IF out.kind \in {"ok", "status"}
  THEN LET durationInSeconds == Div(out.elapsed, Fin(1000, 1))
       IN Div(Div(Div(Fin(uploadSize * 8, 1), Fin(1024, 1)), Fin(1024, 1)), durationInSeconds)
  ELSE Mul(avgDownload, Fin(4, 10))

\* the value one upload attempt pushes
UploadMbps(out, avgDownload) ==
  IF out.kind = "ok"
  THEN LET durationInSeconds == Div(out.elapsed, Fin(1000, 1))
       IN Div(Div(Div(Fin(uploadSize * 8, 1), Fin(1024, 1)), Fin(1024, 1)), durationInSeconds)
  ELSE Mul(avgDownload, Fin(4, 10))

AvgUpload(uploadSpeeds) == Div(Sum(uploadSpeeds), Fin(Len(uploadSpeeds), 1))

\* the returned SpeedResult
Assemble(avgLatency, jitter, avgDownload, avgUpload, ts) ==
  [timestamp |-> ts,
   download |-> ToFixed(avgDownload, 2),
   upload |-> ToFixed(avgUpload, 2),
   latency |-> ToFixed(avgLatency, 1),
   jitter |-> ToFixed(jitter, 1)]

\* await fetch(...): the request goes out
Fetch(p) == [p EXCEPT !.pending = TRUE]

\* LatencyAttempt that repeats a failed round-trip instead of falling back
LatencyAttemptRetrying(p, out) ==
  IF out.kind = "error"
  THEN [p EXCEPT !.pending = FALSE, !.log = Append(p.log, out)]
  ELSE LET latencies == Append(p.latencies, LatencySample(out))
           q == [p EXCEPT !.pending = FALSE, !.latencies = latencies,
                          !.log = Append(p.log, out), !.i = p.i + 1]
       IN IF p.i + 1 < LatencySamples THEN q
          ELSE [q EXCEPT !.pc = "download", !.i = 0,
                         !.avgLatency = AvgLatency(latencies), !.jitter = Jitter(latencies)]

\* one iteration of the latency loop, from the fetch settling to the next await
LatencyAttempt(p, out) ==
  LET latencies == Append(p.latencies, LatencySample(out))
      q == [p EXCEPT !.pending = FALSE, !.latencies = latencies,
                     !.log = Append(p.log, out), !.i = p.i + 1]
  IN IF p.i + 1 < LatencySamples THEN q
     ELSE [q EXCEPT !.pc = "download", !.i = 0,
                    !.avgLatency = AvgLatency(latencies), !.jitter = Jitter(latencies)]

\* DownloadAttempt without the catch: a rejected fetch rejects runSpeedTest
DownloadAttemptUncaught(p, out) ==
  IF out.kind = "error"
  THEN [p EXCEPT !.pc = "rejected", !.pending = FALSE, !.log = Append(p.log, out)]
  ELSE LET downloadSpeeds == Append(p.downloadSpeeds, DownloadMbps(out))
           q == [p EXCEPT !.pending = FALSE, !.downloadSpeeds = downloadSpeeds,
                          !.log = Append(p.log, out), !.i = p.i + 1]
       IN IF p.i + 1 < DownloadSamples THEN q
          ELSE [q EXCEPT !.pc = "upload", !.i = 0, !.avgDownload = AvgDownload(downloadSpeeds)]

\* one iteration of the download loop
DownloadAttempt(p, out) ==
  LET downloadSpeeds == Append(p.downloadSpeeds, DownloadMbps(out))
      q == [p EXCEPT !.pending = FALSE, !.downloadSpeeds = downloadSpeeds,
                     !.log = Append(p.log, out), !.i = p.i + 1]
  IN IF p.i + 1 < DownloadSamples THEN q
     ELSE [q EXCEPT !.pc = "upload", !.i = 0, !.avgDownload = AvgDownload(downloadSpeeds)]

\* one iteration of the upload loop; the last one runs on to the return
UploadAttempt(p, out, ts) ==
  LET uploadSpeeds == Append(p.uploadSpeeds, UploadMbps(out, p.avgDownload))
      q == [p EXCEPT !.pending = FALSE, !.uploadSpeeds = uploadSpeeds,
                     !.log = Append(p.log, out), !.i = p.i + 1]
  IN IF p.i + 1 < UploadSamples THEN q
     ELSE [q EXCEPT !.pc = "returned", !.avgUpload = AvgUpload(uploadSpeeds),
                    !.results = Append(p.results,
                        Assemble(p.avgLatency, p.jitter, p.avgDownload, AvgUpload(uploadSpeeds), ts))]

\* the outstanding fetch settles with outcome out at time ts
Settle(p, out, ts) ==
  CASE p.pc = "latency" -> LatencyAttempt(p, out)
    [] p.pc = "download" -> DownloadAttempt(p, out)
    [] p.pc = "upload" -> UploadAttempt(p, out, ts)

\* the outcomes the fetch a probe is waiting on can have
OutcomesAt(p) ==
  CASE p.pc = "latency" -> LatencyOutcomes
    [] p.pc = "download" -> DownloadOutcomes
    [] p.pc = "upload" -> UploadOutcomes
    [] OTHER -> {}

\* a whole invocation whose fetches settle as outs, in order, returning at ts
RECURSIVE RunFrom(_, _, _)
RunFrom(p, outs, ts) ==
  IF outs = <<>> THEN p ELSE RunFrom(Settle(Fetch(p), Head(outs), ts), Tail(outs), ts)

runSpeedTest(outs, ts) == RunFrom(NewProbe, outs, ts).results[1]

(***************************************************************************)
(* localStorage under 'omnispeed_history'                                  *)
(***************************************************************************)
KeepLast == 100

Null == [t |-> "null", n |-> 0, d |-> 1]

\* JSON has no Infinity or NaN: JSON.stringify writes them as null
JsonNumber(x) == IF x.t = "fin" THEN x ELSE Null

JsonSample(r) ==
  [timestamp |-> r.timestamp, download |-> JsonNumber(r.download), upload |-> JsonNumber(r.upload),
   latency |-> JsonNumber(r.latency), jitter |-> JsonNumber(r.jitter)]

\* the stored item: absent (getItem gives null), the empty string, text that
\* JSON.parse rejects ("corrupt"), JSON of a value that is not an array
\* ("scalar"), or JSON of an array
Stored(kind, items) == [kind |-> kind, items |-> items]

JSONStringify(h) == Stored("array", [k \in DOMAIN h |-> JsonSample(h[k])])

(***************************************************************************)
(* Insight collaborator: getNetworkInsights                                *)
(***************************************************************************)
InsightWindow == 20

\* arr.slice(-k)
SliceLast(arr, k) == SubSeq(arr, IF Len(arr) > k THEN Len(arr) - k + 1 ELSE 1, Len(arr))

\* a value of the insights state: null, a NetworkInsight, or whatever else
\* JSON.parse handed back (shape "other")
Insight(shape, status, summary, recommendations) ==
  [shape |-> shape, status |-> status, summary |-> summary, recommendations |-> recommendations]

NoInsight == Insight("null", "", "", <<>>)

\* InsufficientData with the status of the failure triple
InsufficientDataAsGood ==
  Insight("triple", "good", "Insufficient data to analyze.", <<"Keep monitoring to gather trends.">>)

InsufficientData ==
  Insight("triple", "fair", "Insufficient data to analyze.", <<"Keep monitoring to gather trends.">>)

UnableToConnect ==
  Insight("triple", "good", "Unable to connect to AI analyzer at the moment.",
          <<"Verify your ISP plan if speeds seem low.">>)

\* what ai.models.generateContent can do: reject, resolve without text,
\* resolve with text that is not JSON, with the JSON of a triple, or with
\* JSON of another shape
InsightResponses ==
  {[kind |-> "reject", value |-> NoInsight],
   [kind |-> "empty", value |-> NoInsight],
   [kind |-> "unparseable", value |-> NoInsight],
   [kind |-> "json", value |-> Insight("triple", "excellent", "Stable.", <<"None.">>)],
   [kind |-> "json", value |-> Insight("other", "", "", <<>>)]}

\* the part of getNetworkInsights before the await: the early return for an
\* empty history, else the prompt that is sent
InsightRequest(h) ==
  IF Len(h) = 0
  THEN [sent |-> FALSE, history |-> <<>>, latest |-> <<>>, given |-> h]
  ELSE [sent |-> TRUE,
        history |-> JSONStringify(SliceLast(h, InsightWindow)).items,
        latest |-> <<[download |-> h[Len(h)].download, upload |-> h[Len(h)].upload]>>,
        given |-> h]

NoRequest == [sent |-> FALSE, history |-> <<>>, latest |-> <<>>, given |-> <<>>]

\* InsightResult with a catch that hands back null
InsightResultNullOnFailure(resp) == IF resp.kind = "json" THEN resp.value ELSE NoInsight

\* the part after the await
InsightResult(resp) == IF resp.kind = "json" THEN resp.value ELSE UnableToConnect

\* one invocation of getNetworkInsights: where it stands, the history it was
\* given, the request it sent and what it resolved with
InsightCall(pc, h, request, result) == [pc |-> pc, history |-> h, request |-> request, result |-> result]

NoCall == InsightCall("none", <<>>, NoRequest, NoInsight)

\* from the call to the first await, or to the early return
InsightsEntry(call) ==
  LET request == InsightRequest(call.history)
  IN IF request.sent
     THEN InsightCall("awaiting", call.history, request, NoInsight)
     ELSE InsightCall("returned", call.history, request, InsufficientData)

\* the collaborator does resp: the rest of the try block, or the catch
InsightsAnswer(call, resp) == InsightCall("returned", call.history, call.request, InsightResult(resp))

(***************************************************************************)
(* Scheduler: the App component                                            *)
(***************************************************************************)
TEST_INTERVAL_MS == 10 * 60 * 1000

TickMs == 1000

\* Date.now() when the component mounts
MountTime == (KeepLast + 1) * TEST_INTERVAL_MS

\* probe cycles started in one run of the model
MaxCycles == 2

\* whole intervals the clock runs through in one run
MaxIntervals == 1

\* a sample persisted by an earlier session, k intervals before the mount
PastSample(k) ==
  [timestamp |-> MountTime - k * TEST_INTERVAL_MS, download |-> Fin(50, 1), upload |-> Fin(20, 1),
   latency |-> Fin(15, 1), jitter |-> Fin(2, 1)]

\* a history of n past samples, oldest first
PastHistory(n) == [k \in 1..n |-> PastSample(n + 1 - k)]

\* what the store can hold when the component mounts
StoredAtMount ==
  {Stored("absent", <<>>), Stored("empty", <<>>), Stored("corrupt", <<>>), Stored("scalar", <<>>)}
    \cup {JSONStringify(PastHistory(n)) : n \in {0, 1}}

\* a store filled to the limit by earlier sessions
FullStore == JSONStringify(PastHistory(KeepLast))

\* the network while the page is open: nothing gets through, or everything does
Outage ==
  [k \in 1..(LatencySamples + DownloadSamples + UploadSamples) |->
     IF k <= LatencySamples
     THEN Outcome("error", Zero, 0, Fin(IF k % 2 = 0 THEN 999 ELSE 0, 1000))
     ELSE Outcome("error", Zero, 0, Zero)]

Healthy ==
  [k \in 1..(LatencySamples + DownloadSamples + UploadSamples) |->
     IF k <= LatencySamples THEN Outcome("ok", Fin(123, 10), 0, Zero)
     ELSE IF k <= LatencySamples + DownloadSamples THEN Outcome("ok", Fin(1000, 1), 100 * 131072, Zero)
     ELSE Outcome("ok", Fin(1000, 1), 0, Zero)]

NetworkConditions == {Outage, Healthy}

\* everything gets through and the clock does not advance during a download
\* (a coarse performance.now()): the measured duration is 0
InstantDownload ==
  [k \in 1..(LatencySamples + DownloadSamples + UploadSamples) |->
     IF k > LatencySamples /\ k <= LatencySamples + DownloadSamples
     THEN Outcome("ok", Zero, 100 * 131072, Zero)
     ELSE Healthy[k]]

VARIABLES
  probe,          \* the runSpeedTest invocation followed fetch by fetch
  insightCall,    \* a getNetworkInsights invocation followed on its own
  now,            \* Date.now()
  network,        \* how the fetches of the scheduler's probe cycles settle
  storage,        \* localStorage item 'omnispeed_history'
  app,            \* "rendered": first render done, effects not yet run;
                  \* "running"; "crashed": a render threw, the tree is unmounted
  history,        \* useState: history (its items while it is an array)
  historyIsArray, \* whether the history state holds an array
  isTesting,      \* useState: isTesting
  insights,       \* useState: insights
  nextRun,        \* useState: nextRun
  timeLeft,       \* useState: timeLeft
  closure,        \* what the committed render's performTest and interval callback captured
  cycles          \* the performTest invocations, in the order they started

vars == <<probe, insightCall, now, network, storage, app, history, historyIsArray, isTesting, insights,
          nextRun, timeLeft, closure, cycles>>

schedulerVars == <<storage, app, history, historyIsArray, isTesting, insights,
                   nextRun, timeLeft, closure, cycles>>

Capture(h, t, n) == [history |-> h, isTesting |-> t, nextRun |-> n]

Cycle(pc, trigger, h, request) == [pc |-> pc, trigger |-> trigger, history |-> h, request |-> request]

InFlight == {c \in DOMAIN cycles : cycles[c].pc # "done"}

\* performTest as created by the committed render: returns at once when that
\* render saw isTesting, else sets the flag and awaits runSpeedTest
PerformTestStarts(c) == ~c.isTesting

PerformTest(trigger) ==
  IF PerformTestStarts(closure)
  THEN /\ Len(cycles) < MaxCycles
       /\ cycles' = Append(cycles, Cycle("probing", trigger, closure.history, NoRequest))
       /\ isTesting' = TRUE
  ELSE UNCHANGED <<cycles, isTesting>>

\* the load effect: what it passes to setHistory, if anything
LoadHistory(saved) ==
  IF saved.kind \in {"absent", "empty", "corrupt"}
  THEN [set |-> FALSE, isArray |-> TRUE, items |-> <<>>]
  ELSE [set |-> TRUE, isArray |-> saved.kind = "array", items |-> saved.items]

\* the persist effect: what it writes for history h
Persist(h) == JSONStringify(SliceLast(h, KeepLast))

\* MountEffects without the 'Initial test on load' effect
MountEffectsWithoutTest ==
  /\ app = "rendered"
  /\ app' = "running"
  /\ LET loaded == LoadHistory(storage)
     IN IF loaded.set
        THEN history' = loaded.items /\ historyIsArray' = loaded.isArray
        ELSE UNCHANGED <<history, historyIsArray>>
  /\ storage' = Persist(closure.history)
  /\ UNCHANGED <<probe, insightCall, now, network, insights, nextRun, timeLeft, closure, cycles, isTesting>>

\* the four effects of the first render, in source order: load, persist,
\* initial test, countdown
MountEffects ==
  /\ app = "rendered"
  /\ app' = "running"
  /\ LET loaded == LoadHistory(storage)
     IN IF loaded.set
        THEN history' = loaded.items /\ historyIsArray' = loaded.isArray
        ELSE UNCHANGED <<history, historyIsArray>>
  /\ storage' = Persist(closure.history)
  /\ PerformTest("startup")
  /\ UNCHANGED <<probe, insightCall, now, network, insights, nextRun, timeLeft, closure>>

\* A re-render with the queued state updates, and its effects: persist when
\* history changed, re-arm the interval with the new callback.  A history
\* that is not an array makes the render throw (history.length of null,
\* [...history] of a non-iterable, data.map of a string), which unmounts the
\* component: its interval is cleared and later setState calls do nothing.
Render ==
  /\ app = "running"
  /\ ~historyIsArray \/ Capture(history, isTesting, nextRun) # closure
  /\ IF ~historyIsArray
     THEN app' = "crashed" /\ UNCHANGED <<storage, closure>>
     ELSE /\ closure' = Capture(history, isTesting, nextRun)
          /\ storage' = IF history # closure.history THEN Persist(history) ELSE storage
          /\ UNCHANGED app
  /\ UNCHANGED <<probe, insightCall, now, network, history, historyIsArray, isTesting, insights, nextRun,
                 timeLeft, cycles>>

\* a click on 'Run Now'; the button is disabled when the render saw isTesting
ManualTrigger ==
  /\ app = "running"
  /\ PerformTest("manual")
  /\ UNCHANGED <<probe, insightCall, now, network, storage, app, history, historyIsArray, insights, nextRun,
                 timeLeft, closure>>

\* The setInterval callback.  The clock only matters to this handler, so it
\* moves here: to the next tick (followed for the first tick after the mount
\* and after each whole interval), or over the ticks that only count down to
\* the one at the deadline the callback knows.
Tick ==
  /\ app = "running"
  /\ \E d \in {TickMs, closure.nextRun - now} :
       /\ d >= TickMs
       /\ d = TickMs => (now - MountTime) % TEST_INTERVAL_MS = 0
       /\ d > TickMs => (now - MountTime) \div TEST_INTERVAL_MS < MaxIntervals
       /\ now' = now + d
  /\ LET remaining == IF closure.nextRun - now' > 0 THEN closure.nextRun - now' ELSE 0
     IN /\ timeLeft' = remaining
        /\ IF remaining <= 0 THEN PerformTest("timer") ELSE UNCHANGED <<cycles, isTesting>>
  /\ UNCHANGED <<probe, insightCall, network, storage, app, history, historyIsArray, insights, nextRun, closure>>

\* ProbeReturns putting the new sample in front: setHistory(prev => [result, ...prev])
ProbeReturnsPrepending ==
  \E c \in DOMAIN cycles :
    /\ cycles[c].pc = "probing"
    /\ LET result == runSpeedTest(network, now)
           currentHistory == Append(cycles[c].history, result)
       IN /\ IF app = "running"
             THEN /\ history' = IF historyIsArray THEN <<result>> \o history ELSE history
                  /\ nextRun' = now + TEST_INTERVAL_MS
             ELSE UNCHANGED <<history, nextRun>>
          /\ cycles' = [cycles EXCEPT ![c] =
               Cycle("insight", @.trigger, @.history, InsightRequest(currentHistory))]
    /\ UNCHANGED <<probe, insightCall, now, network, storage, app, historyIsArray, isTesting, insights,
                   timeLeft, closure>>

\* runSpeedTest resolves and performTest runs on to its second await:
\* setHistory, setNextRun, currentHistory from the captured history, and the
\* call of getNetworkInsights (currentHistory.length >= 1 always holds)
ProbeReturns ==
  \E c \in DOMAIN cycles :
    /\ cycles[c].pc = "probing"
    /\ LET result == runSpeedTest(network, now)
           currentHistory == Append(cycles[c].history, result)
       IN /\ IF app = "running"
             THEN /\ history' = IF historyIsArray THEN Append(history, result) ELSE history
                  /\ nextRun' = now + TEST_INTERVAL_MS
             ELSE UNCHANGED <<history, nextRun>>
          /\ cycles' = [cycles EXCEPT ![c] =
               Cycle("insight", @.trigger, @.history, InsightRequest(currentHistory))]
    /\ UNCHANGED <<probe, insightCall, now, network, storage, app, historyIsArray, isTesting, insights,
                   timeLeft, closure>>

\* getNetworkInsights resolves for cycle c, the collaborator having done resp;
\* setInsights, then the finally block
InsightSettlesWith(c, resp) ==
  /\ cycles[c].pc = "insight"
  /\ LET aiResponse == IF cycles[c].request.sent THEN InsightResult(resp) ELSE InsufficientData
     IN IF app = "running"
        THEN insights' = aiResponse /\ isTesting' = FALSE
        ELSE UNCHANGED <<insights, isTesting>>
  /\ cycles' = [cycles EXCEPT ![c] = Cycle("done", "", <<>>, NoRequest)]
  /\ UNCHANGED <<probe, insightCall, now, network, storage, app, history, historyIsArray, nextRun, timeLeft,
                 closure>>

InsightSettles == \E c \in DOMAIN cycles, resp \in InsightResponses : InsightSettlesWith(c, resp)

Init ==
  /\ probe = NewProbe
  /\ insightCall = NoCall
  /\ now = MountTime
  /\ network \in NetworkConditions
  /\ storage \in StoredAtMount
  /\ app = "rendered"
  /\ history = <<>>
  /\ historyIsArray = TRUE
  /\ isTesting = FALSE
  /\ insights = NoInsight
  /\ nextRun = MountTime + TEST_INTERVAL_MS
  /\ timeLeft = TEST_INTERVAL_MS
  /\ closure = Capture(<<>>, FALSE, MountTime + TEST_INTERVAL_MS)
  /\ cycles = <<>>

Next ==
  \/ MountEffects
  \/ Render
  \/ ManualTrigger
  \/ Tick
  \/ ProbeReturns
  \/ InsightSettles

Spec == Init /\ [][Next]_vars

\* the scheduler started on a full store
InitFull ==
  /\ probe = NewProbe
  /\ insightCall = NoCall
  /\ now = MountTime
  /\ network \in NetworkConditions \cup {InstantDownload}
  /\ storage = FullStore
  /\ app = "rendered"
  /\ history = <<>>
  /\ historyIsArray = TRUE
  /\ isTesting = FALSE
  /\ insights = NoInsight
  /\ nextRun = MountTime + TEST_INTERVAL_MS
  /\ timeLeft = TEST_INTERVAL_MS
  /\ closure = Capture(<<>>, FALSE, MountTime + TEST_INTERVAL_MS)
  /\ cycles = <<>>

SpecFull == InitFull /\ [][Next]_vars

(***************************************************************************)
(* One invocation of runSpeedTest, fetch by fetch                          *)
(***************************************************************************)
ProbeFetch ==
  /\ probe.pc \in {"latency", "download", "upload"}
  /\ ~probe.pending
  /\ probe' = Fetch(probe)
  /\ UNCHANGED <<insightCall, now, network, schedulerVars>>

ProbeSettle ==
  /\ probe.pending
  /\ \E out \in OutcomesAt(probe) : probe' = Settle(probe, out, now)
  /\ UNCHANGED <<insightCall, now, network, schedulerVars>>

\* runSpeedTest called on its own; the scheduler stays as constructed
InitEngine ==
  /\ Init
  /\ network = Outage
  /\ storage = Stored("absent", <<>>)

NextEngine == ProbeFetch \/ ProbeSettle

SpecEngine == InitEngine /\ [][NextEngine]_vars

(***************************************************************************)
(* One invocation of getNetworkInsights, called on its own                 *)
(***************************************************************************)
\* the longest run of persisted samples a call is given
MaxHistory == 22

\* persisted samples followed by a sample whose download took 0 ms
CallBase == Append(PastHistory(MaxHistory), runSpeedTest(InstantDownload, MountTime))

\* the histories a caller can pass: any stretch of CallBase, the empty one
\* included
CallHistories ==
  {SubSeq(CallBase, a, b) : a \in 1..(Len(CallBase) + 1), b \in 0..Len(CallBase)}

GetInsightsEntry ==
  /\ insightCall.pc = "called"
  /\ insightCall' = InsightsEntry(insightCall)
  /\ UNCHANGED <<probe, now, network, schedulerVars>>

GetInsightsAnswer ==
  /\ insightCall.pc = "awaiting"
  /\ \E resp \in InsightResponses : insightCall' = InsightsAnswer(insightCall, resp)
  /\ UNCHANGED <<probe, now, network, schedulerVars>>

\* getNetworkInsights called with some history; the scheduler stays as
\* constructed
InitInsights ==
  /\ probe = NewProbe
  /\ insightCall \in {InsightCall("called", h, NoRequest, NoInsight) : h \in CallHistories}
  /\ now = MountTime
  /\ network = Outage
  /\ storage = Stored("absent", <<>>)
  /\ app = "rendered"
  /\ history = <<>>
  /\ historyIsArray = TRUE
  /\ isTesting = FALSE
  /\ insights = NoInsight
  /\ nextRun = MountTime + TEST_INTERVAL_MS
  /\ timeLeft = TEST_INTERVAL_MS
  /\ closure = Capture(<<>>, FALSE, MountTime + TEST_INTERVAL_MS)
  /\ cycles = <<>>

NextInsights == GetInsightsEntry \/ GetInsightsAnswer

SpecInsights == InitInsights /\ [][NextInsights]_vars

(***************************************************************************)
(* Properties                                                              *)
(***************************************************************************)
SampleFields == {"timestamp", "download", "upload", "latency", "jitter"}

Returned == probe.pc = "returned"

\* the outcomes of the latency, download and upload fetches of the probe
LatencyLog(k) == probe.log[k]

DownloadLog(k) == probe.log[LatencySamples + k]

UploadLog(k) == probe.log[LatencySamples + DownloadSamples + k]

\* C1: single-flight: at most one probe cycle is in flight in every reachable
\* state, whatever the interleaving of startup trigger, manual triggers,
\* timer ticks, re-renders and completions.
SingleFlight == Cardinality(InFlight) <= 1

\* C2: the scheduler's history never holds more than 100 samples.
HistoryBounded == Len(history) <= KeepLast

\* C3: runSpeedTest is total: it never rejects, it has returned once all ten
\* fetches have settled however they settled, and what it returns is exactly
\* one SpeedResult with all five fields.
EngineTotal ==
  /\ probe.pc \in {"latency", "download", "upload", "returned"}
  /\ Len(probe.log) = LatencySamples + DownloadSamples + UploadSamples => Returned
  /\ Returned => Len(probe.results) = 1 /\ DOMAIN probe.results[1] = SampleFields
  /\ ~Returned => probe.results = <<>>

\* C3 witness: the probe returned although every one of its fetches failed
EngineReturnedAllFailed ==
  /\ Returned
  /\ \A k \in DOMAIN probe.log : probe.log[k].kind # "ok"

\* C4: download, upload, latency and jitter of every returned sample are
\* finite and >= 0.
MetricsFinite ==
  Returned =>
    \A f \in {"download", "upload", "latency", "jitter"} :
      IsFinite(probe.results[1][f]) /\ NonNegative(probe.results[1][f])

\* C5: the latency phase leaves exactly 5 samples whatever round-trips
\* failed, a failed one replaced by a value in 20..30 ms and a completed one
\* by its elapsed time; latency is their mean and jitter their max minus min
\* (both as rounded to 1 decimal in the sample).
LatencyPhase ==
  probe.pc # "latency" =>
    LET l == probe.latencies
        mean == Div(Add(Add(Add(Add(l[1], l[2]), l[3]), l[4]), l[5]), Fin(5, 1))
    IN /\ Len(l) = 5
       /\ \A k \in 1..5 :
            IF LatencyLog(k).kind = "ok" THEN l[k] = LatencyLog(k).elapsed
            ELSE Leq(Fin(20, 1), l[k]) /\ Leq(l[k], Fin(30, 1))
       /\ probe.avgLatency = mean
       /\ \E hi \in 1..5, lo \in 1..5 :
            /\ \A k \in 1..5 : Leq(l[lo], l[k]) /\ Leq(l[k], l[hi])
            /\ probe.jitter = Sub(l[hi], l[lo])
       /\ Returned => /\ probe.results[1].latency = ToFixed(mean, 1)
                      /\ probe.results[1].jitter = ToFixed(probe.jitter, 1)

\* C5 witness: a returned probe some of whose round-trips failed and some not
LatencyMixed ==
  /\ Returned
  /\ \E j \in 1..LatencySamples, k \in 1..LatencySamples :
       LatencyLog(j).kind = "ok" /\ LatencyLog(k).kind = "error"

\* the throughput of download attempt k, a failed attempt counting 0
Throughput(k) ==
  IF DownloadLog(k).kind = "ok"
  THEN Div(Fin(DownloadLog(k).size * 8, 1048576), Div(DownloadLog(k).elapsed, Fin(1000, 1)))
  ELSE Zero

AtLeastOne(n) == IF n >= 1 THEN n ELSE 1

\* C6 as claimed: download is the sum of the three throughputs over
\* max(1, number of successful attempts).
DownloadOverSucceeded ==
  Returned =>
    probe.results[1].download =
      ToFixed(Div(Add(Add(Throughput(1), Throughput(2)), Throughput(3)),
                  Fin(AtLeastOne(Cardinality({k \in 1..3 : DownloadLog(k).kind = "ok"})), 1)), 2)

\* C6 as amended: download (rounded to 2 decimals) is the sum of the three
\* throughputs, a failed attempt counting 0, over max(1, number of attempts
\* whose throughput is > 0); one success at 100 Mbps and two failures give
\* 100, three failures give 0.
DownloadOverPositive ==
  Returned =>
    /\ probe.results[1].download =
         ToFixed(Div(Add(Add(Throughput(1), Throughput(2)), Throughput(3)),
                     Fin(AtLeastOne(Cardinality({k \in 1..3 : Positive(Throughput(k))})), 1)), 2)
    /\ (\A k \in 1..3 : DownloadLog(k).kind # "ok") => probe.results[1].download = Zero
    /\ (\E k \in 1..3 : /\ Throughput(k) = Fin(100, 1)
                        /\ \A j \in (1..3) \ {k} : DownloadLog(j).kind # "ok")
         => probe.results[1].download = Fin(100, 1)

\* C6 witness: a returned probe with a download that succeeded at 0 Mbps (an
\* empty body) beside one that measured 100 Mbps
ZeroThroughputSuccess ==
  /\ Returned
  /\ \E j \in 1..3, k \in 1..3 :
       /\ DownloadLog(j).kind = "ok" /\ Throughput(j) = Zero
       /\ Throughput(k) = Fin(100, 1)

\* what upload attempt k contributes according to the claim
UploadContribution(k) ==
  IF UploadLog(k).kind = "ok"
  THEN Div(Fin(8, 1), Div(UploadLog(k).elapsed, Fin(1000, 1)))
  ELSE Mul(probe.avgDownload, Fin(2, 5))

\* C7: upload (rounded to 2 decimals) is the mean of exactly 2 attempt
\* results, a failed attempt (rejection or non-success status) contributing
\* download_average * 0.4 and a successful one its measured throughput; when
\* all 3 downloads failed a failed upload contributes 0, and upload = 0 if
\* both uploads fail.
UploadMean ==
  Returned =>
    /\ Len(probe.uploadSpeeds) = 2
    /\ \A k \in 1..2 : probe.uploadSpeeds[k] = UploadContribution(k)
    /\ probe.results[1].upload =
         ToFixed(Div(Add(UploadContribution(1), UploadContribution(2)), Fin(2, 1)), 2)
    /\ (\A j \in 1..3 : DownloadLog(j).kind # "ok") =>
         /\ \A k \in 1..2 : UploadLog(k).kind # "ok" => probe.uploadSpeeds[k] = Zero
         /\ (\A k \in 1..2 : UploadLog(k).kind # "ok") => probe.results[1].upload = Zero

\* C7 witness: a returned probe with a measured download of 100 Mbps, one
\* upload answered with a non-success status and one that went through
UploadFellBack ==
  /\ Returned
  /\ probe.avgDownload = Fin(100, 1)
  /\ UploadLog(1).kind = "status"
  /\ UploadLog(2).kind = "ok" /\ UploadLog(2).elapsed # Zero

\* C8: when a cycle's probe returns, the insight collaborator is given the
\* history as it stands after the append, rehydrated entries included, for
\* the startup cycle as for any other.
InsightGivenUpdatedHistory ==
  [][\A c \in DOMAIN cycles :
       (app = "running" /\ historyIsArray /\ cycles[c].pc = "probing" /\ cycles'[c].pc = "insight")
         => cycles'[c].request.given = history']_vars

\* C9: when the collaborator fails (no response, empty response, text that
\* does not parse) the latest insight becomes the fixed triple good / unable
\* to connect / one recommendation, the cycle ends normally (flag cleared,
\* nothing thrown into the scheduler) and the history stays as it was.
InsightFailureAbsorbed ==
  [][\A c \in DOMAIN cycles, resp \in InsightResponses :
       (app = "running" /\ resp.kind # "json" /\ InsightSettlesWith(c, resp))
         => /\ insights'.shape = "triple"
            /\ insights'.status = "good"
            /\ insights'.summary = "Unable to connect to AI analyzer at the moment."
            /\ insights'.recommendations = <<"Verify your ISP plan if speeds seem low.">>
            /\ history' = history /\ historyIsArray' = historyIsArray
            /\ app' = "running" /\ isTesting' = FALSE /\ cycles'[c].pc = "done"]_vars

\* C9 witness: a sample is in the history, its cycle is over and the insight
\* shown is the one for a failed collaborator
InsightFailureSeen ==
  /\ app = "running"
  /\ Len(history) >= 1
  /\ \E c \in DOMAIN cycles : cycles[c].pc = "done"
  /\ insights = UnableToConnect

\* C10: whatever the store holds at mount, the scheduler never crashes and
\* its history is a list (the stored one if well-formed, else empty).
MalformedStoreHarmless == app # "crashed" /\ historyIsArray

\* C11: when a cycle completes and the in-progress flag goes from true to
\* false, the deadline is the time of that transition plus the interval,
\* whichever trigger started the cycle.
DeadlineFromIdle ==
  [][(app = "running" /\ isTesting /\ ~isTesting') => nextRun' = now' + TEST_INTERVAL_MS]_vars

\* C12: every started cycle returns the scheduler to Idle and the scheduler
\* never halts, stated so that a finite run refutes it: whenever the
\* in-progress flag is set, a cycle is still in flight whose completion will
\* clear it.
StartedCycleClearsFlag == isTesting => InFlight # {}

\* C13: once the render that follows a history mutation is committed, the
\* store holds exactly the last min(100, n) entries of the n-entry history,
\* in the same order, and never more than 100 entries.
StoreMirrorsHistory ==
  (app = "running" /\ historyIsArray /\ closure.history = history) =>
    /\ storage.kind = "array"
    /\ storage.items = SliceLast(history, KeepLast)
    /\ Len(storage.items) <= KeepLast

\* C14: before its effects run the scheduler is Idle with no cycle started;
\* once they have run there is a first cycle, started by startup and by
\* nothing else, already while the clock stands at the mount time and the
\* countdown has not moved; no later cycle is started by startup.
StartupFiresOnce ==
  /\ app = "rendered" => ~isTesting /\ cycles = <<>> /\ InFlight = {}
  /\ app # "rendered" =>
       /\ Len(cycles) >= 1
       /\ cycles[1].pc # "done" => cycles[1].trigger = "startup"
       /\ \A c \in DOMAIN cycles : c > 1 => cycles[c].trigger # "startup"
  /\ (app = "running" /\ timeLeft = TEST_INTERVAL_MS /\ Len(cycles) = 1 /\ cycles[1].pc = "probing") =>
       now = MountTime /\ now < nextRun /\ isTesting

\* C14 witness: right after the mount the startup cycle is probing, the
\* countdown still showing the whole interval
StartupCycleProbing ==
  /\ app = "running"
  /\ now = MountTime
  /\ timeLeft = TEST_INTERVAL_MS
  /\ isTesting
  /\ Len(cycles) = 1 /\ cycles[1].trigger = "startup" /\ cycles[1].pc = "probing"

\* a total outage whose five latency fallbacks draw rs from Math.random()
OutageDraws(rs) ==
  [k \in 1..(LatencySamples + DownloadSamples + UploadSamples) |->
     Outcome("error", Zero, 0, IF k <= LatencySamples THEN rs[k] ELSE Zero)]

\* the samples a total outage can produce at the mount time
OutageSamples ==
  {runSpeedTest(OutageDraws(rs), MountTime) : rs \in [1..LatencySamples -> RandomValues]}

\* download = 0, upload = 0 and latency in the synthetic range
AllFellBack(s) ==
  /\ s.download = Zero
  /\ s.upload = Zero
  /\ Leq(Fin(20, 1), s.latency) /\ Leq(s.latency, Fin(30, 1))

\* the cycles whose probe has handed its sample to the scheduler
Delivered == {c \in DOMAIN cycles : cycles[c].pc \in {"insight", "done"}}

\* a session under total outage that started without persisted samples
OutageFresh ==
  /\ app = "running" /\ historyIsArray
  /\ network = Outage
  /\ \A k \in DOMAIN history : history[k].timestamp >= MountTime

\* C15 as claimed: under total outage, from a fresh start, each completed
\* probe adds exactly one sample (one trigger: length exactly 1) with
\* download = 0, upload = 0, latency in 20..30 and jitter < 10.
OutageSampleStrict ==
  OutageFresh =>
    /\ Len(history) = Cardinality(Delivered)
    /\ \A k \in DOMAIN history :
         /\ AllFellBack(history[k])
         /\ Leq(history[k].jitter, Fin(10, 1)) /\ history[k].jitter # Fin(10, 1)

\* C15 as amended: the same with jitter <= 10: the spread of the synthetic
\* values is below 10 but the sample carries it rounded to 1 decimal, which
\* can be 10.0; this for every combination of fallback draws.
OutageSampleRounded ==
  /\ \A s \in OutageSamples : AllFellBack(s) /\ Leq(s.jitter, Fin(10, 1))
  /\ OutageFresh =>
       /\ Len(history) = Cardinality(Delivered)
       /\ \A k \in DOMAIN history :
            /\ AllFellBack(history[k])
            /\ Leq(history[k].jitter, Fin(10, 1))
            /\ \E s \in OutageSamples : \A f \in SampleFields \ {"timestamp"} : history[k][f] = s[f]

\* C15 witness: the startup cycle under total outage is over and left one
\* sample, whose jitter was rounded up to 10.0
OutageSampleSeen ==
  /\ OutageFresh
  /\ Len(cycles) = 1 /\ cycles[1].pc = "done"
  /\ Len(history) = 1
  /\ AllFellBack(history[1])
  /\ history[1].jitter = Fin(10, 1)

\* C16: getNetworkInsights given an empty history returns the fixed triple
\* fair / 'Insufficient data to analyze.' / 'Keep monitoring to gather
\* trends.' and sends nothing to the collaborator.
EmptyHistoryInsight ==
  (insightCall.pc # "called" /\ Len(insightCall.history) = 0) =>
    /\ insightCall.pc = "returned"
    /\ ~insightCall.request.sent
    /\ insightCall.result.shape = "triple"
    /\ insightCall.result.status = "fair"
    /\ insightCall.result.summary = "Insufficient data to analyze."
    /\ insightCall.result.recommendations = <<"Keep monitoring to gather trends.">>

\* C16 witness: a call with an empty history has returned
EmptyHistoryReturned ==
  /\ insightCall.pc = "returned"
  /\ insightCall.history = <<>>

\* the requests the probe has issued: the settled ones and the outstanding one
Issued == Len(probe.log) + (IF probe.pending THEN 1 ELSE 0)

\* how many of the first n requests fall in a phase of size samples that
\* starts after the first before requests
InPhase(n, before, samples) ==
  IF n <= before THEN 0 ELSE IF n >= before + samples THEN samples ELSE n - before

\* C17: one probe issues exactly 10 requests, 5 latency then 3 download then
\* 2 upload, one at a time: the k-th is issued only when k - 1 have settled,
\* and every settled request, failed or not, counts for exactly one attempt
\* of its phase (no retry, no skipping).
OneRequestAtATime ==
  LET settled == Len(probe.log)
  IN /\ Issued <= LatencySamples + DownloadSamples + UploadSamples
     /\ Issued - settled \in {0, 1}
     /\ Len(probe.latencies) = InPhase(settled, 0, LatencySamples)
     /\ Len(probe.downloadSpeeds) = InPhase(settled, LatencySamples, DownloadSamples)
     /\ Len(probe.uploadSpeeds) = InPhase(settled, LatencySamples + DownloadSamples, UploadSamples)
     /\ probe.pc = (IF settled < LatencySamples THEN "latency"
                    ELSE IF settled < LatencySamples + DownloadSamples THEN "download"
                    ELSE IF settled < LatencySamples + DownloadSamples + UploadSamples THEN "upload"
                    ELSE "returned")
     /\ Returned => Issued = LatencySamples + DownloadSamples + UploadSamples

\* C17 witness: a probe returned after ten requests, the first of each phase
\* having failed and the last upload having gone through
FailuresNotSkipped ==
  /\ Returned
  /\ Issued = 10
  /\ LatencyLog(1).kind = "error" /\ DownloadLog(1).kind = "error" /\ UploadLog(1).kind = "error"
  /\ LatencyLog(5).kind = "ok" /\ DownloadLog(3).kind = "ok" /\ UploadLog(2).kind = "ok"

\* h is ordered by timestamp, ascending
Sorted(h) == \A k \in 1..(Len(h) - 1) : h[k].timestamp <= h[k + 1].timestamp

\* C18: the history is always ordered by timestamp ascending, and a step
\* changes it only by appending at the end the sample, stamped with the
\* current time, of a cycle whose probe completes in that step (or, at the
\* mount, by taking the stored list into the still empty history): no entry
\* is modified, reordered or removed.
HistoryAppendOnly ==
  [][historyIsArray' =>
       /\ Sorted(history')
       /\ \/ history' = history
          \/ /\ app = "rendered" /\ history = <<>>
             /\ history' = storage.items
          \/ \E c \in DOMAIN cycles :
               /\ cycles[c].pc = "probing" /\ cycles'[c].pc = "insight"
               /\ Len(history') = Len(history) + 1
               /\ SubSeq(history', 1, Len(history)) = history
               /\ history'[Len(history')] = runSpeedTest(network, now)
               /\ history'[Len(history')].timestamp = now]_vars

\* C18 witness: a rehydrated entry followed by the samples of two cycles
\* completed at different times
HistoryGrown ==
  /\ app = "running" /\ historyIsArray
  /\ Len(history) = 3
  /\ history[1].timestamp < MountTime
  /\ MountTime <= history[2].timestamp
  /\ history[2].timestamp < history[3].timestamp

\* C19: the insight the scheduler exposes is always either absent or a
\* triple whose status is excellent, good, fair or poor and whose
\* recommendations are a list, whatever the collaborator answered.
InsightWellFormed ==
  \/ insights = NoInsight
  \/ /\ insights.shape = "triple"
     /\ insights.status \in {"excellent", "good", "fair", "poor"}
     /\ DOMAIN insights.recommendations = 1..Len(insights.recommendations)

\* C20: for a history of n >= 1 entries the request holds exactly the last
\* min(20, n) entries, in history order, and names as the latest the
\* download and upload of the last entry.
RequestHoldsLastEntries ==
  LET h == insightCall.history
      n == Len(h)
      m == IF n < InsightWindow THEN n ELSE InsightWindow
  IN (insightCall.pc # "called" /\ n >= 1) =>
       /\ insightCall.request.sent
       /\ Len(insightCall.request.history) = m
       /\ \A k \in 1..m : insightCall.request.history[k] = h[n - m + k]
       /\ insightCall.request.latest = <<[download |-> h[n].download, upload |-> h[n].upload]>>

\* C21: from the mount until the first new sample is appended the store
\* still holds every entry of the valid history it held before the mount,
\* which is the history the load effect has taken into memory: it is never
\* overwritten with an empty or shorter list.
StartupKeepsStore ==
  (app = "running" /\ historyIsArray /\ Delivered = {} /\ Len(history) >= 1) =>
    /\ storage.kind = "array"
    /\ Len(storage.items) >= Len(history)
    /\ \A k \in DOMAIN history : \E j \in DOMAIN storage.items : storage.items[j] = history[k]

====
